---- MODULE Spec2Model ----
(***************************************************************************)
(* Model of sidecar-http-proxy (src/main.rs): the request handler built in *)
(* main() by make_service_fn/service_fn, the three fixed responses         *)
(* (debug_request, redirect, not_found) and the Cache-Control injection    *)
(* applied to the response of hyper_reverse_proxy::call.                   *)
(*                                                                         *)
(* Text (paths, queries, URIs, header values) is a sequence of one-letter  *)
(* strings, so that starts_with, replace, trim_matches, format! and        *)
(* Uri::from_str are computed letter by letter.  Option<T> is a sequence   *)
(* of length at most one: <<>> is None, <<v>> is Some(v).                  *)
(***************************************************************************)
EXTENDS Integers, Sequences, FiniteSets

VARIABLES
    target,     \* main: target   (Box<String>, trailing '/' trimmed)
    source,     \* main: source   (Box<String>, '/' trimmed on both ends)
    cache,      \* main: cache    (Option<Box<String>>)
    pc,         \* position of the connection's current request
    req,        \* Option: the request handed to the service_fn closure
    forwarded,  \* Option: the request handed to hyper_reverse_proxy::call
    upstream,   \* Option: the response the proxy call resolved to
    resp,       \* Option: the result of the future the closure returned
    log         \* lines printed to stdout while handling the current request

vars == <<target, source, cache, pc, req, forwarded, upstream, resp, log>>

(***************************************************************************)
(* Bounds of the model.                                                    *)
(***************************************************************************)
MaxSourceLen == 2
MaxPathLen == 6
MaxQueryLen == 2
MaxHeaders == 2

(***************************************************************************)
(* Text helpers.                                                           *)
(***************************************************************************)
SeqsUpTo(S, n) == UNION {[1..k -> S] : k \in 0..n}

Drop(s, n) == SubSeq(s, n + 1, Len(s))

\* str::starts_with
StartsWith(s, p) == Len(p) <= Len(s) /\ SubSeq(s, 1, Len(p)) = p

\* str::trim_end_matches(c)
RECURSIVE TrimEndMatches(_, _)
TrimEndMatches(s, c) ==
    IF s # <<>> /\ s[Len(s)] = c
    THEN TrimEndMatches(SubSeq(s, 1, Len(s) - 1), c)
    ELSE s

RECURSIVE TrimStartMatches(_, _)
TrimStartMatches(s, c) ==
    IF s # <<>> /\ s[1] = c THEN TrimStartMatches(Tail(s), c) ELSE s

\* str::trim_matches(c)
TrimMatches(s, c) == TrimEndMatches(TrimStartMatches(s, c), c)

\* str::replace(from, to): every non-overlapping match of `from`, scanning
\* left to right, is replaced by `to` (`from` is never empty here).
RECURSIVE Replace(_, _, _)
Replace(s, from, to) ==
    IF Len(s) < Len(from) THEN s
    ELSE IF StartsWith(s, from)
         THEN to \o Replace(Drop(s, Len(from)), from, to)
         ELSE <<Head(s)>> \o Replace(Tail(s), from, to)

\* position of the first occurrence of letter c in s, or 0
RECURSIVE Find(_, _)
Find(s, c) ==
    IF s = <<>> THEN 0
    ELSE IF Head(s) = c THEN 1
    ELSE LET r == Find(Tail(s), c) IN IF r = 0 THEN 0 ELSE r + 1

(***************************************************************************)
(* http::Uri as hyper hands it to the closure: a path and an optional      *)
(* query.  Only letters of UriChars occur in a parsed Uri.                 *)
(***************************************************************************)
UriChars == {"/", "a", "?", "*"}
PathChars == {"/", "a"}
QueryChars == {"/", "?"}

\* Display for Uri (format!("{}", req.uri())) of an origin-form Uri
UriDisplay(uri) ==
    IF uri.query = <<>> THEN uri.path ELSE uri.path \o <<"?">> \o uri.query[1]

\* Uri::from_str for a text that begins with '/': the path ends at the first
\* '?', the query is the rest; a letter outside UriChars is an error, as is
\* the empty text.  (Other forms of request target do not begin with '/'.)
UriFromStr(s) ==
    IF s = <<>> \/ s[1] # "/" \/ \E i \in 1..Len(s) : s[i] \notin UriChars
    THEN [ok |-> FALSE]
    ELSE LET q == Find(s, "?") IN
         IF q = 0
         THEN [ok |-> TRUE, uri |-> [path |-> s, query |-> <<>>]]
         ELSE [ok |-> TRUE,
               uri |-> [path |-> SubSeq(s, 1, q - 1), query |-> <<Drop(s, q)>>]]

(***************************************************************************)
(* http::HeaderMap: a sequence of <<name, value>> in iteration order, the  *)
(* values of one name next to each other.  Names are stored in lower case. *)
(***************************************************************************)
\* HeaderName from a &str key: the name in lower case
HdrName(key) ==
    CASE key = "Cache-Control" -> "cache-control"
      [] key = "X-Proxy-Debug" -> "x-proxy-debug"
      [] key = "Location" -> "location"
      [] key = "Content-Type" -> "content-type"
      [] OTHER -> key

\* HeaderMap::contains_key
ContainsKey(headers, key) ==
    \E i \in 1..Len(headers) : headers[i][1] = HdrName(key)

\* HeaderMap::insert: the value replaces every value the name had
HeaderInsert(headers, key, value) ==
    LET name == HdrName(key) IN
    IF ~ContainsKey(headers, key)
    THEN Append(headers, <<name, value>>)
    ELSE LET first == CHOOSE i \in 1..Len(headers) :
                         /\ headers[i][1] = name
                         /\ \A j \in 1..(i - 1) : headers[j][1] # name
             before == SubSeq(headers, 1, first - 1)
             after == SelectSeq(Drop(headers, first), LAMBDA e : e[1] # name)
         IN before \o <<<<name, value>>>> \o after

\* HeaderValue::from_str: fails on a control character
HeaderValueOk(value) == \A i \in 1..Len(value) : value[i] \notin {"\n", "\r"}

NoCache == <<"n", "o", "-", "c", "a", "c", "h", "e">>
MaxAge60 == <<"m", "a", "x", "-", "a", "g", "e", "=", "6", "0">>
BrokenValue == <<"n", "o", "\n">>
TextPlainUtf8 == <<"t", "e", "x", "t", "/", "p", "l", "a", "i", "n", ";", " ",
                   "c", "h", "a", "r", "s", "e", "t", "=", "u", "t", "f", "-", "8">>

(***************************************************************************)
(* Command line (main, lines 120-141).  A missing -t panics before the     *)
(* server starts, so every state has a target.                             *)
(***************************************************************************)
SourceChars == {"/", "a"}
\* values of -s holding a letter no Uri holds
OddSources == {<<" ">>, <<"?">>}
SourceOptions ==
    {<<>>} \cup {<<v>> : v \in SeqsUpTo(SourceChars, MaxSourceLen) \cup OddSources}
TargetOptions == {<<"t">>, <<"t", "/">>}
CacheOptions == {<<>>, <<NoCache>>, <<BrokenValue>>}

\* let target = ... v.trim_end_matches('/')
ParseTarget(v) == TrimEndMatches(v, "/")

\* let source = match opt_str("s") { Some(v) => v.trim_matches('/'), None => "" }
ParseSource(opt) == IF opt = <<>> THEN <<>> ELSE TrimMatches(opt[1], "/")

\* let source_match = format!("/{}", source)
source_match == <<"/">> \o source

\* mutant: the prefix without its closing '/'
source_prefix_NoSlash == <<"/">> \o source

\* let source_prefix = format!("/{}/", source)
source_prefix == <<"/">> \o source \o <<"/">>

(***************************************************************************)
(* Requests the closure can be handed.                                     *)
(***************************************************************************)
Methods == {"GET", "POST"}
\* origin-form paths, and the path of "OPTIONS *"
Paths ==
    {p \in SeqsUpTo(PathChars, MaxPathLen) : p # <<>> /\ p[1] = "/"}
        \cup {<<"*">>}
Queries == {<<>>} \cup {<<q>> : q \in SeqsUpTo(QueryChars, MaxQueryLen)}
Accept == <<"accept", <<"a">>>>
RequestHeaders ==
    {<<>>, <<Accept>>, <<Accept, <<"x-proxy-debug", <<>>>>>>}
Requests ==
    [method : Methods, uri : [path : Paths, query : Queries],
     headers : RequestHeaders]

(***************************************************************************)
(* The fixed responses.                                                    *)
(***************************************************************************)
\* format!("{:?}", req)
DebugFormat(r) == <<"Request", r.method, r.uri, r.headers>>

\* mutant: the dump without its Content-Type
debug_request_NoType(r) ==
    [status |-> 200, headers |-> <<>>, body |-> DebugFormat(r)]

\* fn debug_request: the builder's default status is 200
debug_request(r) ==
    [status |-> 200,
     headers |-> <<<<HdrName("Content-Type"), TextPlainUtf8>>>>,
     body |-> DebugFormat(r)]

\* mutant: a temporary redirect
redirect_Found(url) ==
    [status |-> 302,
     headers |-> <<<<HdrName("Location"), url>>>>,
     body |-> <<>>]

\* fn redirect
redirect(url) ==
    [status |-> 301,
     headers |-> <<<<HdrName("Location"), url>>>>,
     body |-> <<>>]

\* fn not_found
not_found ==
    [status |-> 404, headers |-> <<>>, body |-> <<"Not Found html">>]

(***************************************************************************)
(* The proxy branch.                                                       *)
(***************************************************************************)
\* mutant: the prefix is replaced in the whole of path?query
forward_uri_Whole(uri) == Replace(UriDisplay(uri), source_prefix, <<"/">>)

\* let forward_uri = match req.uri().query() { ... }
forward_uri(uri) ==
    IF uri.query # <<>>
    THEN Replace(uri.path, source_prefix, <<"/">>) \o <<"?">> \o uri.query[1]
    ELSE Replace(uri.path, source_prefix, <<"/">>)

\* for (k, v) in r.headers().iter() { headers.insert(k.clone(), v.clone()); }
RECURSIVE CopyHeaders(_, _)
CopyHeaders(headers, todo) ==
    IF todo = <<>> THEN headers
    ELSE CopyHeaders(HeaderInsert(headers, Head(todo)[1], Head(todo)[2]),
                     Tail(todo))

\* mutant: the value is inserted without the contains_key test
InjectCacheControl_Always(r, header_value) ==
    [r EXCEPT !.headers =
         HeaderInsert(CopyHeaders(<<>>, r.headers), "Cache-Control",
                      header_value)]

\* future.map(|mut r| { ... r })
InjectCacheControl(r, header_value) ==
    IF ~ContainsKey(r.headers, "Cache-Control")
    THEN [r EXCEPT !.headers =
              HeaderInsert(CopyHeaders(<<>>, r.headers), "Cache-Control",
                           header_value)]
    ELSE r

\* the line println! writes on each branch (the timestamp is left out)
ProxyLine(r) ==
    [uri |-> UriDisplay(r.uri), label |-> "Proxy",
     detail |-> target \o forward_uri(r.uri)]
RedirectLine(r) ==
    [uri |-> UriDisplay(r.uri), label |-> "HTTP/301 Location:",
     detail |-> source_prefix]
DebugLine(r) ==
    [uri |-> UriDisplay(r.uri), label |-> "Debug", detail |-> DebugFormat(r)]
NotFoundLine(r) ==
    [uri |-> UriDisplay(r.uri), label |-> "HTTP/404", detail |-> <<>>]

(***************************************************************************)
(* Responses hyper_reverse_proxy::call can resolve to.                     *)
(***************************************************************************)
UpstreamStatuses == {200}
UpstreamPairs ==
    {<<"cache-control", MaxAge60>>, <<"cache-control", NoCache>>,
     <<"set-cookie", <<"a">>>>, <<"set-cookie", <<"b">>>>}
\* the values of one name are next to each other in a HeaderMap
Grouped(h) ==
    \A i, k \in 1..Len(h) :
        (i < k /\ h[i][1] = h[k][1]) =>
            \A j \in i..k : h[j][1] = h[i][1]
UpstreamHeaders == {h \in SeqsUpTo(UpstreamPairs, MaxHeaders) : Grouped(h)}

(***************************************************************************)
(* State machine.                                                          *)
(***************************************************************************)
Init ==
    /\ \E t \in TargetOptions : target = ParseTarget(t)
    /\ \E s \in SourceOptions : source = ParseSource(s)
    /\ cache \in CacheOptions
    /\ pc = "idle"
    /\ req = <<>>
    /\ forwarded = <<>>
    /\ upstream = <<>>
    /\ resp = <<>>
    /\ log = <<>>

\* hyper hands the closure the next request of the connection
Idle == pc = "idle"

Accept1(r) ==
    /\ Idle
    /\ req' = <<r>>
    /\ UNCHANGED <<target, source, cache, upstream>>

\* mutant: the proxy branch prints nothing
ServeProxy_Silent(r) ==
    /\ Accept1(r)
    /\ StartsWith(r.uri.path, source_prefix)
    /\ log' = log
    /\ resp' = <<>>
    /\ forwarded' = <<[r EXCEPT !.uri = UriFromStr(forward_uri(r.uri)).uri]>>
    /\ pc' = "proxying"

\* closure, lines 158-193: the path starts with source_prefix
ServeProxy(r) ==
    /\ Accept1(r)
    /\ StartsWith(r.uri.path, source_prefix)
    /\ log' = <<ProxyLine(r)>>
    /\ resp' = <<>>
    /\ LET parsed == UriFromStr(forward_uri(r.uri)) IN
       IF ~parsed.ok
       THEN \* Uri::from_str(..).unwrap() panics
            /\ forwarded' = <<>>
            /\ pc' = "panicked"
       ELSE /\ forwarded' = <<[r EXCEPT !.uri = parsed.uri]>>
            /\ pc' = IF cache # <<>> /\ ~HeaderValueOk(cache[1])
                     THEN "panicked"  \* HeaderValue::from_str(..).unwrap()
                     ELSE "proxying"

\* closure, lines 194-201: the path is source_match
ServeRedirect(r) ==
    /\ Accept1(r)
    /\ ~StartsWith(r.uri.path, source_prefix)
    /\ r.uri.path = source_match
    /\ log' = <<RedirectLine(r)>>
    /\ resp' = <<[ok |-> TRUE, response |-> redirect(source_prefix)]>>
    /\ pc' = "responded"
    /\ UNCHANGED forwarded

\* closure, lines 203-205: no match, X-Proxy-Debug present
ServeDebug(r) ==
    /\ Accept1(r)
    /\ ~StartsWith(r.uri.path, source_prefix)
    /\ r.uri.path # source_match
    /\ ContainsKey(r.headers, "X-Proxy-Debug")
    /\ log' = <<DebugLine(r)>>
    /\ resp' = <<[ok |-> TRUE, response |-> debug_request(r)]>>
    /\ pc' = "responded"
    /\ UNCHANGED forwarded

\* closure, lines 206-208: no match, no X-Proxy-Debug
ServeNotFound(r) ==
    /\ Accept1(r)
    /\ ~StartsWith(r.uri.path, source_prefix)
    /\ r.uri.path # source_match
    /\ ~ContainsKey(r.headers, "X-Proxy-Debug")
    /\ log' = <<NotFoundLine(r)>>
    /\ resp' = <<[ok |-> TRUE, response |-> not_found]>>
    /\ pc' = "responded"
    /\ UNCHANGED forwarded

\* the proxy call resolves to a response; the closure of future.map runs
\* when a cache-control value is configured
TransportOk(status, headers) ==
    /\ pc = "proxying"
    /\ LET r == [status |-> status, headers |-> headers,
                 body |-> <<"upstream body">>] IN
       /\ upstream' = <<[ok |-> TRUE, response |-> r]>>
       /\ resp' = <<[ok |-> TRUE,
                     response |-> IF cache = <<>> THEN r
                                  ELSE InjectCacheControl(r, cache[1])]>>
    /\ pc' = "responded"
    /\ UNCHANGED <<target, source, cache, req, forwarded, log>>

\* the proxy call resolves to a hyper::Error; future.map passes it through
TransportErr ==
    /\ pc = "proxying"
    /\ upstream' = <<[ok |-> FALSE]>>
    /\ resp' = <<[ok |-> FALSE]>>
    /\ pc' = "responded"
    /\ UNCHANGED <<target, source, cache, req, forwarded, log>>

\* hyper writes the result to the connection and waits for the next request
Responded ==
    /\ pc = "responded"
    /\ pc' = "idle"
    /\ req' = <<>>
    /\ forwarded' = <<>>
    /\ upstream' = <<>>
    /\ resp' = <<>>
    /\ log' = <<>>
    /\ UNCHANGED <<target, source, cache>>

Next ==
    \/ Idle /\ \E r \in Requests : ServeProxy(r)
    \/ Idle /\ \E r \in Requests : ServeRedirect(r)
    \/ Idle /\ \E r \in Requests : ServeDebug(r)
    \/ Idle /\ \E r \in Requests : ServeNotFound(r)
    \/ pc = "proxying" /\
           \E s \in UpstreamStatuses, h \in UpstreamHeaders : TransportOk(s, h)
    \/ TransportErr
    \/ Responded

Spec == Init /\ [][Next]_vars

(***************************************************************************)
(* Properties.                                                             *)
(***************************************************************************)
\* what the claims call prefixPath and matchPath, written out
PrefixPath == <<"/">> \o source \o <<"/">>
MatchPath == <<"/">> \o source

\* a closure invocation has happened for the current request
Handled == req # <<>>
Path == req[1].uri.path
NoMatch == ~StartsWith(Path, PrefixPath) /\ Path # MatchPath
HasDebugMarker ==
    \E i \in 1..Len(req[1].headers) : req[1].headers[i][1] = "x-proxy-debug"
Answered == pc = "responded" /\ resp # <<>> /\ resp[1].ok
NeverForwarded == forwarded = <<>> /\ upstream = <<>> /\ pc # "proxying"

\* s with only its first occurrence of `from` replaced by `to`
ReplaceFirst(s, from, to) ==
    LET hits == {i \in 1..(Len(s) - Len(from) + 1) :
                    SubSeq(s, i, i + Len(from) - 1) = from}
    IN IF hits = {} THEN s
       ELSE LET i == CHOOSE h \in hits : \A k \in hits : h <= k
            IN SubSeq(s, 1, i - 1) \o to \o Drop(s, i + Len(from) - 1)

\* number of entries of header map h equal to e
Count(h, e) == Cardinality({i \in 1..Len(h) : h[i] = e})

HasCacheControl(h) == \E i \in 1..Len(h) : h[i][1] = "cache-control"

\* Not a claim: the only panic a request reaches is the unwrap of
\* HeaderValue::from_str; Uri::from_str never fails on a forward_uri.
PanicOnlyFromHeaderValue ==
    pc = "panicked" =>
        /\ cache # <<>> /\ ~HeaderValueOk(cache[1])
        /\ forwarded # <<>>
        /\ UriFromStr(forward_uri(req[1].uri)).ok

\* C1: a request whose path starts with prefixPath is classified ProxyMatch
\* and forwarded with only the first occurrence of prefixPath replaced by
\* "/", later occurrences being preserved.
C1_FirstOccurrenceOnly ==
    (Handled /\ StartsWith(Path, PrefixPath)) =>
        /\ log[1].label = "Proxy"
        /\ forwarded # <<>>
        /\ forwarded[1].uri.path = ReplaceFirst(Path, PrefixPath, <<"/">>)

\* C2: with a default cache-control value configured, a transport response
\* that already carries Cache-Control is returned with exactly the
\* transport's headers, Cache-Control keeping the transport's value.
C2_NeverOverwrites ==
    (/\ pc = "responded" /\ cache # <<>>
     /\ upstream # <<>> /\ upstream[1].ok
     /\ HasCacheControl(upstream[1].response.headers)) =>
        /\ resp[1].ok
        /\ resp[1].response.headers = upstream[1].response.headers
        /\ \A i \in 1..Len(upstream[1].response.headers) :
               upstream[1].response.headers[i][1] = "cache-control" =>
                   resp[1].response.headers[i]
                       = upstream[1].response.headers[i]

C2_Witness ==
    /\ pc = "responded" /\ cache = <<NoCache>>
    /\ upstream # <<>> /\ upstream[1].ok
    /\ upstream[1].response.headers = <<<<"cache-control", MaxAge60>>>>
    /\ resp[1].response.headers = <<<<"cache-control", MaxAge60>>>>

\* C3: with an empty source prefix every request whose path starts with "/"
\* and is not the bare "/" is classified ProxyMatch and forwarded, not
\* answered with not-found.
C3_EmptyPrefixProxiesAll ==
    (Handled /\ source = <<>> /\ Path[1] = "/" /\ Path # <<"/">>) =>
        /\ log[1].label = "Proxy"
        /\ forwarded # <<>>

\* C4: when the transport's response has no Cache-Control and a default is
\* configured, the final header multimap is the transport's plus exactly one
\* entry Cache-Control: value; every original entry is retained.
C4_AddsExactlyOne ==
    (/\ pc = "responded" /\ cache # <<>>
     /\ upstream # <<>> /\ upstream[1].ok
     /\ ~HasCacheControl(upstream[1].response.headers)) =>
        LET before == upstream[1].response.headers
            after == resp[1].response.headers
            added == <<"cache-control", cache[1]>>
        IN /\ Len(after) = Len(before) + 1
           /\ Count(after, added) = 1
           /\ \A i \in 1..Len(before) :
                  Count(after, before[i]) = Count(before, before[i])

\* C5: a request whose path neither starts with "/" + sourcePrefix + "/" nor
\* equals "/" + sourcePrefix is NoMatch: the transport is never invoked, no
\* redirect is issued, and without the debug marker the answer is the 404.
C5_NoMatch ==
    (Handled /\ NoMatch) =>
        /\ NeverForwarded
        /\ Answered
        /\ resp[1].response.status # 301
        /\ log[1].label \in {"Debug", "HTTP/404"}
        /\ ~HasDebugMarker =>
               /\ log[1].label = "HTTP/404"
               /\ resp[1].response.status = 404
               /\ resp[1].response.headers = <<>>
               /\ resp[1].response.body = <<"Not Found html">>

C5_Witness ==
    /\ Handled /\ NoMatch /\ ~HasDebugMarker
    /\ source = <<"a">> /\ Path = <<"/", "a", "a">>
    /\ Answered /\ resp[1].response.status = 404

\* C6: a NoMatch request carrying X-Proxy-Debug is answered 200 with content
\* type text/plain; charset=utf-8 and the dump of the request, and is never
\* handed to the transport.
C6_DebugEcho ==
    (Handled /\ NoMatch /\ HasDebugMarker) =>
        /\ Answered
        /\ resp[1].response.status = 200
        /\ resp[1].response.headers = <<<<"content-type", TextPlainUtf8>>>>
        /\ resp[1].response.body
               = <<"Request", req[1].method, req[1].uri, req[1].headers>>
        /\ log[1].label = "Debug"
        /\ NeverForwarded

C6_Witness ==
    /\ Handled /\ NoMatch /\ HasDebugMarker
    /\ Answered /\ resp[1].response.status = 200
    /\ req[1].uri.query # <<>>

\* C7: a request whose path is exactly "/" + sourcePrefix is answered 301
\* with an empty body and Location "/" + sourcePrefix + "/", and is not
\* handed to the transport.
C7_Redirect ==
    (Handled /\ Path = MatchPath) =>
        /\ Answered
        /\ resp[1].response.status = 301
        /\ resp[1].response.body = <<>>
        /\ resp[1].response.headers = <<<<"location", PrefixPath>>>>
        /\ log[1].label = "HTTP/301 Location:"
        /\ NeverForwarded

C7_Witness ==
    /\ Handled /\ source = <<"a">> /\ Path = <<"/", "a">>
    /\ Answered
    /\ resp[1].response.headers = <<<<"location", <<"/", "a", "/">>>>>>

\* C8: the query of the forwarded URI is the query of the incoming request,
\* also when the query contains prefixPath; no query stays no query.
C8_QueryUnchanged ==
    forwarded # <<>> => forwarded[1].uri.query = req[1].uri.query

C8_Witness ==
    /\ forwarded # <<>>
    /\ source = <<>>
    /\ req[1].uri.query = <<<<"/", "/">>>>
    /\ forwarded[1].uri.query = <<<<"/", "/">>>>
    /\ forwarded[1].uri.path # Path

\* C9: every handled request has exactly one log line, of one of the four
\* dispositions, printed before the result is returned and, on Proxy, before
\* the transport call completes, so also when that call fails.
C9_OneLogLine ==
    /\ Handled =>
           /\ Len(log) = 1
           /\ log[1].label
                  \in {"Proxy", "HTTP/301 Location:", "Debug", "HTTP/404"}
           /\ log[1].label = "Proxy" <=> StartsWith(Path, PrefixPath)
    /\ ~Handled => log = <<>>
    /\ (pc = "proxying" \/ resp # <<>>) => Handled

C9_Witness ==
    /\ pc = "responded" /\ resp # <<>> /\ ~resp[1].ok
    /\ Len(log) = 1 /\ log[1].label = "Proxy"

====
